---- MODULE Spec2Model ----
(***************************************************************************)
(* AudioEngine (src/lib/audio/AudioEngine.ts) as a state machine.          *)
(*                                                                         *)
(* The engine's private fields are the variables.  Every `await` of a      *)
(* start call is a suspension point: a start call is one action up to its  *)
(* first await and one action per resumption, and any other operation may  *)
(* run in between.  The browser objects the engine creates (oscillators,   *)
(* gain nodes, the interval timer, media streams, audio elements, blob     *)
(* URLs, source nodes) are records <<kind, call, idx>> named after the     *)
(* start call that created them; `live` holds those created and not yet    *)
(* released.                                                               *)
(*                                                                         *)
(* Numbers: energies and band values are exact rationals.  An energy is    *)
(* kept as its numerator totalSum over the fixed denominator binCount*255; *)
(* a band value is a record [n, d] standing for n/d.  Gain values are in   *)
(* hundredths (150 is 1.5).  Clock values are whole milliseconds.          *)
(*                                                                         *)
(* Arrays: a Uint8Array-valued field holds the name of its contents, and   *)
(* Content maps each name to the bytes (1024 of them for an analyser       *)
(* buffer).  The per-bin loops of getData() run over the bytes; their      *)
(* results for the spectra the analyser can deliver are kept in the tables *)
(* Measured and Flux.                                                      *)
(***************************************************************************)
EXTENDS Integers, Sequences, FiniteSets, TLC

\* ---------------------------------------------------------------- bounds
\* number of start calls issued in one behaviour
MaxCalls == 2
\* number of getData() calls in one behaviour
MaxFrames == 2
\* number of getData() calls of a session fed with arbitrary spectra
MaxSessionFrames == 4
\* number of getData() calls of a session fed with a steady or periodic signal
MaxSignalFrames == 300

\* ------------------------------------------------------- program constants
ENERGY_HISTORY_SIZE == 43
BPM_WINDOW_MS == 5000
minBeatInterval == 150
\* BEAT_THRESHOLD = 1.3 as the fraction 13/10
BEAT_THRESHOLD_NUM == 13
BEAT_THRESHOLD_DEN == 10
\* the flux normaliser of line 293
FLUX_NORM == 40
\* freqs.length in startDemo
NumDemoOscillators == 6
\* masterGain.gain.value = 0.15, in hundredths
DemoMasterGain == 15
\* default value of a GainNode's gain (createGain), in hundredths
DefaultGain == 100

_fftSize == 2048
\* analyser.frequencyBinCount
BinCount == _fftSize \div 2

\* ------------------------------------------------------------ input sets
Kinds == {"mic", "file", "audius", "demo"}
\* ctx.sampleRate of a new AudioContext: the rate of the output device
\* (telephone-band headset, CD, DAT, studio interface)
DeviceSampleRates == {8000, 44100, 48000, 192000}
\* the rate of the device the start calls run on
SampleRates == {44100}
\* values handed to setGain, in hundredths: -1 and 1.5
GainInputs == {-100, 150}
\* time elapsed between two getData() calls, in ms
TimeSteps == {200}
\* the same for a session fed with arbitrary spectra
SessionSteps == {100, 150, 200}
\* frame periods of a steady render loop (50 and 10 frames per second)
SignalSteps == {20, 100}
\* the impulse period of a 120 BPM train, in ms
ImpulsePeriod == 60000 \div 120
\* a swung rhythm: impulses 300, 500 and 700 ms apart, over and over
SwingPeriod == 3 * ImpulsePeriod
SwingOffsets == {0, 300, 800}
\* a 30 BPM train
SlowPeriod == 4 * ImpulsePeriod
\* a 120 BPM train that ends after its fifth impulse
BurstEnd == 4 * ImpulsePeriod

\* ----------------------------------------------------------------- arrays
Bins == 0..(BinCount - 1)
\* the spectra getByteFrequencyData can deliver: nothing, every bin at the
\* top, only the bins below 250 Hz at the top, every bin just above nothing,
\* magnitudes rising with the frequency
SpectrumNames == {"zeros", "full", "bassy", "quiet", "ramp"}
\* the waveforms getByteTimeDomainData can deliver; 128 is the zero line
WaveNames == {"silence", "wave"}
ArrayNames == {"empty"} \cup SpectrumNames \cup WaveNames
Content ==
  [h \in ArrayNames |->
     CASE h = "empty" -> [i \in {} |-> 0]
       [] h = "zeros" -> [i \in Bins |-> 0]
       [] h = "full" -> [i \in Bins |-> 255]
       [] h = "bassy" -> [i \in Bins |-> IF i < 12 THEN 255 ELSE 0]
       [] h = "quiet" -> [i \in Bins |-> 2]
       [] h = "ramp" -> [i \in Bins |-> i \div 4]
       [] h = "silence" -> [i \in Bins |-> 128]
       [] h = "wave" -> [i \in Bins |-> IF i % 2 = 0 THEN 255 ELSE 0]]

\* new Uint8Array(n): n zero bytes
Uint8Array(n) == CHOOSE h \in ArrayNames : Content[h] = [i \in 0..(n - 1) |-> 0]
Filled(n, v) == CHOOSE h \in ArrayNames : Content[h] = [i \in 0..(n - 1) |-> v]
Silence == Filled(BinCount, 128)
Wave == "wave"
\* what getByteFrequencyData / getByteTimeDomainData can write in one frame
AnalyserInputs == {[f |-> Filled(BinCount, 0), t |-> Silence],
                   [f |-> Filled(BinCount, 255), t |-> Wave]}
\* the same with more spectra
SessionInputs == AnalyserInputs \cup {[f |-> "bassy", t |-> Wave],
                                      [f |-> "quiet", t |-> Silence]}
\* the spectra a steady input can hold
SteadyInputs == SessionInputs \cup {[f |-> "ramp", t |-> Wave]}

\* ---------------------------------------------------------------- signals
\* The input of the analyser: anything ("any", "session"), the same spectrum
\* on every frame ("steady"), or loud frames at the impulses of a rhythm and
\* near silence between ("train", "swing", "slow", "burst"); step is the
\* frame period of the render loop when it is steady.
Signal(k, s) == [kind |-> k, step |-> s]
AnySignal == Signal("any", 0)
Rhythms == {"train", "swing", "slow", "burst"}
SessionSignals ==
  {Signal("session", 0)}
  \cup {Signal(k, s) : k \in {"steady"} \cup Rhythms, s \in SignalSteps}
\* the rhythm k has an impulse at time t
Impulse(k, t) ==
  CASE k = "train" -> t % ImpulsePeriod = 0
    [] k = "swing" -> (t % SwingPeriod) \in SwingOffsets
    [] k = "slow" -> t % SlowPeriod = 0
    [] k = "burst" -> t % ImpulsePeriod = 0 /\ t <= BurstEnd

\* ------------------------------------------------------------ null values
Null == [kind |-> "null", call |-> 0, idx |-> 0]
NoTrack == [title |-> "", artist |-> "", source |-> "none"]
Res(k, c, i) == [kind |-> k, call |-> c, idx |-> i]

VARIABLES
  \* AudioEngine fields
  ctx, analyser, source, gainNode, frequencyData, timeDomainData,
  currentSource, audioElement, mediaStream, demoOscillators, demoGains,
  demoInterval, isActive, energyHistory, beatTimestamps, prevFrequencyData,
  lastBeatTime, currentTrack,
  \* browser side
  ctxInfo,        \* sampleRate of every AudioContext created, in order
  analyserCtx,    \* the AudioContext this.analyser was created on
  live,           \* resources created and not released
  gainValue,      \* this.gainNode.gain.value (0 while gainNode is null)
  toDestination,  \* analysers connected to ctx.destination
  now,            \* performance.now()
  signal,         \* what is playing into the analyser's input
  \* callers
  calls,          \* the start calls: kind, position, the local `ctx`, and
                  \* whether stop() or dispose() was called, and no start
                  \* call made since, while this call is pending
  frame,          \* what the last getData() call returned
  nFrames,        \* getData() calls made
  overlapped,     \* some start/stop/dispose was made while a start was pending
  doubleRelease   \* some resource was released when it was not live

engineVars == <<ctx, analyser, source, gainNode, frequencyData, timeDomainData,
                currentSource, audioElement, mediaStream, demoOscillators,
                demoGains, demoInterval, isActive, energyHistory,
                beatTimestamps, prevFrequencyData, lastBeatTime, currentTrack>>
sessionVars == <<source, gainNode, audioElement, mediaStream, demoOscillators,
                 demoGains, demoInterval, isActive, currentTrack>>
analysisVars == <<energyHistory, beatTimestamps, prevFrequencyData, lastBeatTime>>
bufferVars == <<frequencyData, timeDomainData>>
vars == <<engineVars, ctxInfo, analyserCtx, live, gainValue, toDestination, now, signal, calls,
          frame, nFrames, overlapped, doubleRelease>>

CallIds == 1..MaxCalls
NoCall == [kind |-> "none", pc |-> "none", ctx |-> 0, stopped |-> FALSE]
\* Contexts are numbered in the order of their creation.  The engine makes
\* a new one only when this.ctx is null, which it is only at the start and
\* after dispose() closed the one before: every context but this.ctx is closed.
Closed(cx) == cx # ctx

Pending(c) == calls[c].pc \in {"awaitCtx", "awaitMedia", "awaitPlay"}
\* a settled call keeps its kind and its outcome ("resolved" or "rejected")
Settle(c, outcome) ==
  [calls EXCEPT ![c] = [@ EXCEPT !.pc = outcome, !.ctx = 0, !.stopped = FALSE]]
Settled(c) == calls[c].pc \in {"resolved", "rejected"}
\* stop() or dispose() is called (b = TRUE), or a start call (b = FALSE)
Mark(b) == [c \in CallIds |-> IF Pending(c) THEN [calls[c] EXCEPT !.stopped = b]
                                             ELSE calls[c]]
AnyPending == \E c \in CallIds : Pending(c)
NextCall == Cardinality({c \in CallIds : calls[c].pc # "none"}) + 1

Range(s) == {s[i] : i \in 1..Len(s)}

\* ------------------------------------------------------------------ Init
Zero == [n |-> 0, d |-> 1]
\* (buffers tells which arrays the frame's frequency and timeDomain are: 0
\* for arrays made for this frame, c for the frequencyData and
\* timeDomainData buffers allocated with analyser c; frequency and
\* timeDomain are their contents when getData() returned)
emptyResult ==
  [threw |-> FALSE,
   buffers |-> 0,
   frequency |-> Uint8Array(_fftSize \div 2),
   timeDomain |-> Uint8Array(_fftSize \div 2),
   bass |-> Zero, mid |-> Zero,
   treble |-> Zero, energy |-> Zero,
   peak |-> Zero,
   isBeat |-> FALSE, beatIntensity |-> Zero, bpm |-> 0,
   spectralFlux |-> Zero,
   subBass |-> Zero, upperMid |-> Zero,
   presence |-> Zero]

Init ==
  /\ ctx = 0
  /\ analyser = 0
  /\ source = Null
  /\ gainNode = Null
  /\ frequencyData = Uint8Array(0)
  /\ timeDomainData = Uint8Array(0)
  /\ currentSource = "demo"
  /\ audioElement = Null
  /\ mediaStream = Null
  /\ demoOscillators = <<>>
  /\ demoGains = <<>>
  /\ demoInterval = Null
  /\ isActive = FALSE
  /\ energyHistory = <<>>
  /\ beatTimestamps = <<>>
  /\ prevFrequencyData = Uint8Array(0)
  /\ lastBeatTime = 0
  /\ currentTrack = NoTrack
  /\ ctxInfo = <<>>
  /\ live = {}
  /\ analyserCtx = 0
  /\ gainValue = 0
  /\ toDestination = {}
  /\ now = 0
  /\ signal = AnySignal
  /\ calls = [c \in CallIds |-> NoCall]
  /\ frame = emptyResult
  /\ nFrames = 0
  /\ overlapped = FALSE
  /\ doubleRelease = FALSE


\* ------------------------------------------------------------------ stop
\* (stop() without URL.revokeObjectURL)
BlobUrlOf_never(a) == {}
\* audioElement.src.startsWith('blob:'): startFile sets src to an object
\* URL, startAudius to the track's stream URL
\* (an audio element has idx 1 when its src is an object URL)
BlobUrlOf(a) ==
  IF a # Null /\ a.idx = 1 THEN {Res("blobUrl", a.call, 0)} ELSE {}

\* (stop() without the clearInterval of line 370-373)
StopReleased_noClearInterval ==
  Range(demoOscillators)
  \cup Range(demoGains)
  \cup (IF audioElement # Null THEN {audioElement} \cup BlobUrlOf(audioElement)
        ELSE {})
  \cup (IF mediaStream # Null THEN {mediaStream} ELSE {})
  \cup (IF source # Null THEN {source} ELSE {})
  \cup (IF gainNode # Null THEN {gainNode} ELSE {})

\* everything stop() stops, pauses, clears, revokes or disconnects
StopReleased ==
  (IF demoInterval # Null THEN {demoInterval} ELSE {})
  \cup Range(demoOscillators)
  \cup Range(demoGains)
  \cup (IF audioElement # Null THEN {audioElement} \cup BlobUrlOf(audioElement)
        ELSE {})
  \cup (IF mediaStream # Null THEN {mediaStream} ELSE {})
  \cup (IF source # Null THEN {source} ELSE {})
  \cup (IF gainNode # Null THEN {gainNode} ELSE {})

\* (stop() without `this.mediaStream = null`)
stop_keepsStream ==
  /\ isActive' = FALSE
  /\ currentTrack' = NoTrack
  /\ demoInterval' = Null
  /\ demoOscillators' = <<>>
  /\ demoGains' = <<>>
  /\ audioElement' = Null
  /\ mediaStream' = mediaStream
  /\ source' = Null
  /\ gainNode' = Null
  /\ gainValue' = 0
  /\ live' = live \ StopReleased
  /\ doubleRelease' = (doubleRelease \/ (StopReleased \ live) # {})

\* (stop() without `this._currentTrack = null`)
stop_keepsTrack ==
  /\ isActive' = FALSE
  /\ currentTrack' = currentTrack
  /\ demoInterval' = Null
  /\ demoOscillators' = <<>>
  /\ demoGains' = <<>>
  /\ audioElement' = Null
  /\ mediaStream' = Null
  /\ source' = Null
  /\ gainNode' = Null
  /\ gainValue' = 0
  /\ live' = live \ StopReleased
  /\ doubleRelease' = (doubleRelease \/ (StopReleased \ live) # {})

stop ==
  /\ isActive' = FALSE
  /\ currentTrack' = NoTrack
  /\ demoInterval' = Null
  /\ demoOscillators' = <<>>
  /\ demoGains' = <<>>
  /\ audioElement' = Null
  /\ mediaStream' = Null
  /\ source' = Null
  /\ gainNode' = Null
  /\ gainValue' = 0
  /\ live' = live \ StopReleased
  /\ doubleRelease' = (doubleRelease \/ (StopReleased \ live) # {})

\* --------------------------------------------------------- ensureContext
\* the synchronous part of ensureContext(): create the context when there
\* is none; r is the sample rate the browser gives it
ensureContext(r) ==
  /\ ctx' = IF ctx = 0 THEN Len(ctxInfo) + 1 ELSE ctx
  /\ ctxInfo' = IF ctx = 0 THEN Append(ctxInfo, r) ELSE ctxInfo

\* a start call up to its first await: stop(), then ensureContext() runs
\* until it returns this.ctx or awaits ctx.resume()
StartCall(c, k, r) ==
  /\ c = NextCall
  /\ c \in CallIds
  /\ stop
  /\ ensureContext(r)
  /\ calls' = [Mark(FALSE) EXCEPT ![c] = [kind |-> k, pc |-> "awaitCtx",
                                          ctx |-> ctx', stopped |-> FALSE]]
  /\ overlapped' = (overlapped \/ AnyPending)
  /\ UNCHANGED <<analyser, analyserCtx, bufferVars, currentSource, analysisVars,
                 toDestination, now, signal, frame, nFrames>>

startMic == \E c \in CallIds, r \in SampleRates : StartCall(c, "mic", r)
startFile == \E c \in CallIds, r \in SampleRates : StartCall(c, "file", r)
startAudius == \E c \in CallIds, r \in SampleRates : StartCall(c, "audius", r)
startDemo == \E c \in CallIds, r \in SampleRates : StartCall(c, "demo", r)

\* ------------------------------------------- setupAnalyser / reset state
setupAnalyser(c, cx) ==
  /\ analyser' = c
  /\ analyserCtx' = cx
  /\ frequencyData' = Uint8Array(BinCount)
  /\ timeDomainData' = Uint8Array(BinCount)

resetAnalysisState ==
  /\ energyHistory' = <<>>
  /\ beatTimestamps' = <<>>
  /\ lastBeatTime' = 0
  /\ prevFrequencyData' = Uint8Array(_fftSize \div 2)

\* The values `await this.ensureContext()` can yield to call c.  A context
\* that is running is returned at once (this.ctx as it was at the call); a
\* suspended one is returned after `await this.ctx.resume()` (this.ctx as it
\* is at the resumption).  Whether a context is suspended is the browser's
\* choice, so both are possible.
ContextValues(c) == {calls[c].ctx, ctx}

\* the await of ensureContext() fails: the context awaited in resume() was
\* closed meanwhile, or `return this.ctx` gave null and setupAnalyser(null)
\* throws a TypeError
ContextFailed(c) ==
  /\ calls[c].pc = "awaitCtx"
  /\ \/ Closed(calls[c].ctx)
     \/ 0 \in ContextValues(c)
  /\ calls' = Settle(c, "rejected")
  /\ UNCHANGED <<engineVars, ctxInfo, analyserCtx, live, gainValue,
                 toDestination, now, signal, frame, nFrames,
                 overlapped, doubleRelease>>

start_contextFailed == \E c \in CallIds : ContextFailed(c)

\* common part of every resumption after `await this.ensureContext()`;
\* cx is the value of the local `ctx`
AfterContext(c, k, cx) ==
  /\ calls[c].pc = "awaitCtx"
  /\ calls[c].kind = k
  /\ cx \in ContextValues(c) \ {0}
  /\ setupAnalyser(c, cx)
  /\ resetAnalysisState
  /\ UNCHANGED <<ctx, ctxInfo, now, signal, frame, nFrames,
                 overlapped, doubleRelease>>

\* --------------------------------------------------------------- startMic
micTrack == [title |-> "Microphone Input", artist |-> "Live", source |-> "mic"]

\* (startMic marking the session active before the await, as startFile does)
startMic_afterContext_activeEarly == \E c \in CallIds, cx \in CallIds :
  /\ AfterContext(c, "mic", cx)
  /\ toDestination' = toDestination \ {analyser}
  /\ calls' = [calls EXCEPT ![c] = [@ EXCEPT !.pc = "awaitMedia", !.ctx = 0]]
  /\ currentSource' = "mic"
  /\ isActive' = TRUE
  /\ currentTrack' = micTrack
  /\ UNCHANGED <<source, gainNode, audioElement, mediaStream, demoOscillators,
                 demoGains, demoInterval, live, gainValue>>

\* line 109-113: up to `await getUserMedia`
startMic_afterContext == \E c \in CallIds, cx \in CallIds :
  /\ AfterContext(c, "mic", cx)
  /\ toDestination' = toDestination \ {analyser}
  /\ calls' = [calls EXCEPT ![c] = [@ EXCEPT !.pc = "awaitMedia", !.ctx = 0]]
  /\ UNCHANGED <<sessionVars, currentSource, live, gainValue>>

startMic_granted == \E c \in CallIds :
  /\ calls[c].pc = "awaitMedia"
  /\ mediaStream' = Res("stream", c, 0)
  /\ source' = Res("source", c, 0)
  /\ live' = live \cup {Res("stream", c, 0), Res("source", c, 0)}
  /\ currentSource' = "mic"
  /\ isActive' = TRUE
  /\ currentTrack' = micTrack
  /\ calls' = Settle(c, "resolved")
  /\ UNCHANGED <<ctx, analyser, gainNode, bufferVars, audioElement,
                 demoOscillators, demoGains, demoInterval, analysisVars,
                 ctxInfo, analyserCtx, gainValue, toDestination, now, signal, frame, nFrames,
                 overlapped, doubleRelease>>

startMic_denied == \E c \in CallIds :
  /\ calls[c].pc = "awaitMedia"
  /\ calls' = Settle(c, "rejected")
  /\ UNCHANGED <<engineVars, ctxInfo, analyserCtx, live, gainValue,
                 toDestination, now, signal, frame, nFrames,
                 overlapped, doubleRelease>>

\* ------------------------------------------------- startFile / startAudius
\* lines 128-144 and 156-176: the element, its nodes and the session fields
Audio(c, k) == Res("audio", c, IF k = "file" THEN 1 ELSE 0)

MediaSession(c, k, cx, track) ==
  /\ AfterContext(c, k, cx)
  /\ audioElement' = Audio(c, k)
  /\ gainNode' = Res("gain", c, 0)
  /\ gainValue' = DefaultGain
  /\ source' = Res("source", c, 0)
  /\ toDestination' = (toDestination \ {analyser}) \cup {c}
  /\ live' = live \cup {Audio(c, k), Res("source", c, 0), Res("gain", c, 0)}
                  \cup (IF k = "file" THEN {Res("blobUrl", c, 0)} ELSE {})
  /\ currentSource' = k
  /\ isActive' = TRUE
  /\ currentTrack' = track
  /\ calls' = [calls EXCEPT ![c] = [@ EXCEPT !.pc = "awaitPlay", !.ctx = 0]]
  /\ UNCHANGED <<mediaStream, demoOscillators, demoGains, demoInterval>>

fileTrack == [title |-> "name", artist |-> "Unknown", source |-> "file"]
audiusTrack == [title |-> "track.title", artist |-> "track.artist", source |-> "audius"]

startFile_afterContext == \E c \in CallIds, cx \in CallIds :
  MediaSession(c, "file", cx, fileTrack)
startAudius_afterContext == \E c \in CallIds, cx \in CallIds :
  MediaSession(c, "audius", cx, audiusTrack)

\* audio.play() resolves; a pause() during the await rejects it instead
play_resolved == \E c \in CallIds :
  /\ calls[c].pc = "awaitPlay"
  /\ Audio(c, calls[c].kind) \in live
  /\ calls' = Settle(c, "resolved")
  /\ UNCHANGED <<engineVars, ctxInfo, analyserCtx, live, gainValue,
                 toDestination, now, signal, frame, nFrames,
                 overlapped, doubleRelease>>

play_rejected == \E c \in CallIds :
  /\ calls[c].pc = "awaitPlay"
  /\ calls' = Settle(c, "rejected")
  /\ UNCHANGED <<engineVars, ctxInfo, analyserCtx, live, gainValue,
                 toDestination, now, signal, frame, nFrames,
                 overlapped, doubleRelease>>

\* -------------------------------------------------------------- startDemo
DemoIdx == 1..NumDemoOscillators
demoTrack == [title |-> "Demo Mode", artist |-> "Synestify", source |-> "demo"]

startDemo_afterContext == \E c \in CallIds, cx \in CallIds :
  /\ AfterContext(c, "demo", cx)
  /\ gainNode' = Res("gain", c, 0)
  /\ gainValue' = DemoMasterGain
  /\ toDestination' = (toDestination \ {analyser}) \cup {c}
  /\ demoOscillators' = demoOscillators \o [i \in DemoIdx |-> Res("osc", c, i)]
  /\ demoGains' = demoGains \o [i \in DemoIdx |-> Res("demoGain", c, i)]
  /\ demoInterval' = Res("timer", c, 0)
  /\ live' = live \cup {Res("gain", c, 0), Res("timer", c, 0)}
                  \cup {Res("osc", c, i) : i \in DemoIdx}
                  \cup {Res("demoGain", c, i) : i \in DemoIdx}
  /\ currentSource' = "demo"
  /\ isActive' = TRUE
  /\ currentTrack' = demoTrack
  /\ calls' = Settle(c, "resolved")
  /\ UNCHANGED <<source, audioElement, mediaStream>>

\* ------------------------------------------------ stop / dispose / setGain
Stop ==
  /\ stop
  /\ calls' = Mark(TRUE)
  /\ overlapped' = (overlapped \/ AnyPending)
  /\ UNCHANGED <<ctx, analyser, analyserCtx, bufferVars, currentSource,
                 analysisVars, ctxInfo, toDestination, now, signal, frame, nFrames>>

\* (dispose() without `this.ctx = null`)
dispose_keepsCtx ==
  /\ stop
  /\ ctx' = ctx
  /\ UNCHANGED ctxInfo
  /\ calls' = Mark(TRUE)
  /\ overlapped' = (overlapped \/ AnyPending)
  /\ UNCHANGED <<analyser, analyserCtx, bufferVars, currentSource,
                 analysisVars, toDestination, now, signal, frame, nFrames>>

dispose ==
  /\ stop
  /\ ctx' = 0
  /\ UNCHANGED ctxInfo
  /\ calls' = Mark(TRUE)
  /\ overlapped' = (overlapped \/ AnyPending)
  /\ UNCHANGED <<analyser, analyserCtx, bufferVars, currentSource,
                 analysisVars, toDestination, now, signal, frame, nFrames>>

\* gain.value of the current gain stage after setGain(value), line 361-363
gainAfter_always(value) == value
gainAfter(value) == IF gainNode # Null THEN value ELSE gainValue

SetGainTo(value) ==
  /\ gainValue' = gainAfter(value)
  /\ UNCHANGED <<engineVars, ctxInfo, analyserCtx, live, toDestination, now, signal,
                 calls, frame, nFrames, overlapped, doubleRelease>>

setGain == \E value \in GainInputs : SetGainTo(value)

\* --------------------------------------------------------------- getData
Min(a, b) == IF a < b THEN a ELSE b
Max(a, b) == IF a > b THEN a ELSE b

\* the sum of data[i] over the bins i of S that lie in lo..hi
RECURSIVE SumRange(_, _, _, _)
SumRange(data, S, lo, hi) ==
  IF lo > hi THEN 0
  ELSE IF lo = hi THEN (IF lo \in S THEN data[lo] ELSE 0)
  ELSE LET m == (lo + hi) \div 2
       IN SumRange(data, S, lo, m) + SumRange(data, S, m + 1, hi)
SumOver(data, S) == SumRange(data, S, 0, BinCount - 1)

RECURSIVE SumSeq(_)
SumSeq(q) == IF q = <<>> THEN 0 ELSE Head(q) + SumSeq(Tail(q))

\* Math.floor(f / binWidth) with binWidth = sampleRate / fftSize
BinOf(f, sampleRate) == (f * _fftSize) \div sampleRate

bassStart(sr) == Max(BinOf(20, sr), 0)
\* (the bass band ending where the mid band of 2000 Hz ends)
bassEnd_atMid(sr) == Min(BinOf(2000, sr), BinCount)
bassEnd(sr) == Min(BinOf(250, sr), BinCount)
midEnd(sr) == Min(BinOf(2000, sr), BinCount)
trebleEnd(sr) == Min(BinOf(20000, sr), BinCount)
subBassEnd(sr) == Min(BinOf(60, sr), BinCount)
upperMidStart(sr) == Min(BinOf(2000, sr), BinCount)
upperMidEnd(sr) == Min(BinOf(6000, sr), BinCount)
presenceStart(sr) == Min(BinOf(6000, sr), BinCount)
\* (the presence band running to the last bin)
presenceEnd_toNyquist(sr) == BinCount
presenceEnd(sr) == trebleEnd(sr)

\* the bins the if / else-if chain of line 273-275 adds to each main band
bassBins(sr) == {i \in Bins : i >= bassStart(sr) /\ i < bassEnd(sr)}
midBins(sr) == {i \in Bins \ bassBins(sr) : i >= bassEnd(sr) /\ i < midEnd(sr)}
trebleBins(sr) ==
  {i \in (Bins \ bassBins(sr)) \ midBins(sr) : i >= midEnd(sr) /\ i < trebleEnd(sr)}
\* the extended bands of line 278-280
subBassBins(sr) == {i \in Bins : i >= bassStart(sr) /\ i < subBassEnd(sr)}
upperMidBins(sr) == {i \in Bins : i >= upperMidStart(sr) /\ i < upperMidEnd(sr)}
presenceBins(sr) == {i \in Bins : i >= presenceStart(sr) /\ i < presenceEnd(sr)}

\* (the band as sum / 255, without the division by count)
BandValue_sumOnly(data, S) ==
  IF Cardinality(S) # 0
    THEN [n |-> SumOver(data, S), d |-> 255]
    ELSE Zero

\* count ? (sum / count) / 255 : 0
BandValue(data, S) ==
  IF Cardinality(S) # 0
    THEN [n |-> SumOver(data, S), d |-> Cardinality(S) * 255]
    ELSE Zero

\* the largest data[i] over the bins lo..hi (0 when there is none)
RECURSIVE PeakRange(_, _, _)
PeakRange(data, lo, hi) ==
  IF lo > hi THEN 0
  ELSE IF lo = hi THEN data[lo]
  ELSE LET m == (lo + hi) \div 2
       IN Max(PeakRange(data, lo, m), PeakRange(data, m + 1, hi))
PeakOf(data) == PeakRange(data, 0, BinCount - 1)

\* energy = (totalSum / binCount) / 255, kept as totalSum
totalSum(data) == SumOver(data, Bins)
energyOf(e) == [n |-> e, d |-> BinCount * 255]

\* sum of the positive differences to the previous frame
fluxSum(data, prev) ==
  SumOver([i \in Bins |-> IF data[i] - prev[i] > 0 THEN data[i] - prev[i] ELSE 0],
          Bins)
\* (the flux without Math.min(1, ...))
spectralFluxOf_unclamped(data, prev) ==
  [n |-> fluxSum(data, prev), d |-> BinCount * FLUX_NORM]
spectralFluxOf(data, prev) ==
  [n |-> Min(fluxSum(data, prev), BinCount * FLUX_NORM), d |-> BinCount * FLUX_NORM]

\* (the push with the shift made at length ENERGY_HISTORY_SIZE already)
pushEnergy_shiftEarly(hist, e) ==
  IF Len(Append(hist, e)) >= ENERGY_HISTORY_SIZE
    THEN Tail(Append(hist, e)) ELSE Append(hist, e)

\* energyHistory after the push and the shift
pushEnergy(hist, e) ==
  IF Len(Append(hist, e)) > ENERGY_HISTORY_SIZE
    THEN Tail(Append(hist, e)) ELSE Append(hist, e)

\* (line 313 with the average taken over ENERGY_HISTORY_SIZE entries however
\* many the history holds)
beatFires_fixedWindow(e, hist, t, last) ==
  /\ e * ENERGY_HISTORY_SIZE * BEAT_THRESHOLD_DEN > BEAT_THRESHOLD_NUM * SumSeq(hist)
  /\ 100 * SumSeq(hist) > ENERGY_HISTORY_SIZE * BinCount * 255
  /\ (t - last) > minBeatInterval

\* (line 313 without the test on the time since the last beat)
beatFires_noInterval(e, hist, t, last) ==
  /\ e * Len(hist) * BEAT_THRESHOLD_DEN > BEAT_THRESHOLD_NUM * SumSeq(hist)
  /\ 100 * SumSeq(hist) > Len(hist) * BinCount * 255

\* line 313, with avgEnergy = SumSeq(hist) / (Len(hist) * binCount * 255):
\*   energy > avgEnergy * 1.3, avgEnergy > 0.01, now - lastBeatTime > 150
beatFires(e, hist, t, last) ==
  /\ e * Len(hist) * BEAT_THRESHOLD_DEN > BEAT_THRESHOLD_NUM * SumSeq(hist)
  /\ 100 * SumSeq(hist) > Len(hist) * BinCount * 255
  /\ (t - last) > minBeatInterval

\* Math.min(1, (energy - threshold) / Math.max(avgEnergy, 0.01)) on a beat
\* (avgEnergy > 0.01 there)
intensityOf(e, hist) ==
  LET over == e * Len(hist) * BEAT_THRESHOLD_DEN - BEAT_THRESHOLD_NUM * SumSeq(hist)
      den == BEAT_THRESHOLD_DEN * SumSeq(hist)
  IN [n |-> Min(over, den), d |-> den]

\* (the loop shifting while ts[0] <= cutoff)
RECURSIVE pruneBeats_atCutoff(_, _)
pruneBeats_atCutoff(ts, cutoff) ==
  IF Len(ts) > 0 /\ ts[1] <= cutoff THEN pruneBeats_atCutoff(Tail(ts), cutoff) ELSE ts

\* the while loop of line 323: shift from the front while older than cutoff
RECURSIVE pruneBeats(_, _)
pruneBeats(ts, cutoff) ==
  IF Len(ts) > 0 /\ ts[1] < cutoff THEN pruneBeats(Tail(ts), cutoff) ELSE ts

\* (every interval measured from the first timestamp)
intervalsOf_fromFirst(ts) == [i \in 1..(Len(ts) - 1) |-> ts[i + 1] - ts[1]]
intervalsOf(ts) == [i \in 1..(Len(ts) - 1) |-> ts[i + 1] - ts[i]]
\* Math.round(60000 / m) for a positive m
RoundDiv(a, m) == (2 * a + m) \div (2 * m)

\* (the median taken at index ceil(n / 2) - 1: the lower middle of an even n)
bpmOf_lowerMedian(ts) ==
  IF Len(ts) >= 3
    THEN LET sorted == SortSeq(intervalsOf(ts), LAMBDA a, b : a < b)
             medianInterval == sorted[(Len(sorted) + 1) \div 2]
         IN IF medianInterval > 0
              THEN LET bpm == RoundDiv(60000, medianInterval)
                   IN IF bpm < 40 \/ bpm > 220 THEN 0 ELSE bpm
              ELSE 0
    ELSE 0

bpmOf(ts) ==
  IF Len(ts) >= 3
    THEN LET sorted == SortSeq(intervalsOf(ts), LAMBDA a, b : a < b)
             medianInterval == sorted[(Len(sorted) \div 2) + 1]
         IN IF medianInterval > 0
              THEN LET bpm == RoundDiv(60000, medianInterval)
                   IN IF bpm < 40 \/ bpm > 220 THEN 0 ELSE bpm
              ELSE 0
    ELSE 0

\* what the loop of line 268-281 and the returns of line 345-356 make of the
\* bytes `data` at sample rate sr
BandsOf(data, sr) ==
  [totalSum |-> totalSum(data),
   peak |-> [n |-> PeakOf(data), d |-> 255],
   bass |-> BandValue(data, bassBins(sr)),
   mid |-> BandValue(data, midBins(sr)),
   treble |-> BandValue(data, trebleBins(sr)),
   subBass |-> BandValue(data, subBassBins(sr)),
   upperMid |-> BandValue(data, upperMidBins(sr)),
   presence |-> BandValue(data, presenceBins(sr))]

\* the per-bin results for every spectrum the analyser can deliver
Measured == [h \in SpectrumNames, sr \in DeviceSampleRates |-> BandsOf(Content[h], sr)]
Flux == [h \in SpectrumNames, p \in SpectrumNames |->
           spectralFluxOf(Content[h], Content[p])]
\* spectrum a is bin by bin no higher than spectrum b
NotAbove == [a \in SpectrumNames, b \in SpectrumNames |->
               \A i \in Bins : Content[a][i] <= Content[b][i]]

\* Web Audio: the analyser has a signal when a live node of its session
\* feeds it and its context is not closed
Connected ==
  /\ analyserCtx # 0
  /\ ~Closed(analyserCtx)
  /\ \E r \in live : r.call = analyser /\ r.kind \in {"source", "gain"}

\* what the signal delivers on the frame taken at time t
Delivered(t) ==
  CASE signal.kind = "any" -> AnalyserInputs
    [] signal.kind = "session" -> SessionInputs
    [] signal.kind = "steady" ->
         {r \in SteadyInputs : nFrames = 0 \/ r.f = frequencyData}
    [] signal.kind \in Rhythms ->
         IF Impulse(signal.kind, t) THEN {[f |-> "full", t |-> Wave]}
                                    ELSE {[f |-> "quiet", t |-> Silence]}

\* without input the waveform is the zero line and the spectrum only decays
\* (smoothingTimeConstant = 0.8)
Readings(t) ==
  IF Connected THEN Delivered(t)
  ELSE {[f |-> r.f, t |-> Silence] :
          r \in {q \in Delivered(t) : NotAbove[q.f, frequencyData]}}

\* the frame periods and the number of frames explored for the signal
Steps ==
  CASE signal.kind = "any" -> TimeSteps
    [] signal.kind = "session" -> SessionSteps
    [] OTHER -> {signal.step}
FrameLimit ==
  CASE signal.kind = "any" -> MaxFrames
    [] signal.kind = "session" -> MaxSessionFrames
    [] OTHER -> MaxSignalFrames

\* the frame of line 342-357 for spectrum data, waveform wave at time t
FrameOf(data, wave, sr, t) ==
  LET m == Measured[data, sr]
      e == m.totalSum
      hist == pushEnergy(energyHistory, e)
      fires == beatFires(e, hist, t, lastBeatTime)
      ts == pruneBeats(IF fires THEN Append(beatTimestamps, t) ELSE beatTimestamps,
                       t - BPM_WINDOW_MS)
  IN [threw |-> FALSE,
      buffers |-> analyser,
      frequency |-> data,
      timeDomain |-> wave,
      bass |-> m.bass,
      mid |-> m.mid,
      treble |-> m.treble,
      energy |-> energyOf(e),
      peak |-> m.peak,
      isBeat |-> fires,
      beatIntensity |-> IF fires THEN intensityOf(e, hist) ELSE Zero,
      bpm |-> bpmOf(ts),
      spectralFlux |-> Flux[data, prevFrequencyData],
      subBass |-> m.subBass,
      upperMid |-> m.upperMid,
      presence |-> m.presence]

\* `this.ctx!.sampleRate` with this.ctx null: a TypeError
thrown == [emptyResult EXCEPT !.threw = TRUE]

\* getData() without an analyser: the empty result
getData_empty == \E dt \in Steps :
  /\ nFrames < FrameLimit
  /\ analyser = 0
  /\ frame' = emptyResult
  /\ now' = now + dt
  /\ nFrames' = nFrames + 1
  /\ UNCHANGED <<engineVars, ctxInfo, analyserCtx, live, gainValue,
                 toDestination, signal, calls, overlapped, doubleRelease>>

\* getData() after dispose(): the analyser fills the two buffers, then
\* line 246 dereferences the null context
getData_throws ==
  /\ nFrames < FrameLimit
  /\ analyser # 0
  /\ ctx = 0
  /\ \E dt \in Steps : \E r \in Readings(now + dt) :
       /\ frequencyData' = r.f
       /\ timeDomainData' = r.t
       /\ now' = now + dt
  /\ frame' = thrown
  /\ nFrames' = nFrames + 1
  /\ UNCHANGED <<ctx, analyser, sessionVars, currentSource, analysisVars,
                 ctxInfo, analyserCtx, live, gainValue, toDestination, signal,
                 calls, overlapped, doubleRelease>>

\* (getData() without line 296: the previous spectrum is never saved)
Analyse_keepsPrev(r, t) ==
  LET e == Measured[r.f, ctxInfo[ctx]].totalSum
      hist == pushEnergy(energyHistory, e)
      fires == beatFires(e, hist, t, lastBeatTime)
  IN /\ frequencyData' = r.f
     /\ timeDomainData' = r.t
     /\ prevFrequencyData' = prevFrequencyData
     /\ energyHistory' = hist
     /\ lastBeatTime' = IF fires THEN t ELSE lastBeatTime
     /\ beatTimestamps' =
          pruneBeats(IF fires THEN Append(beatTimestamps, t) ELSE beatTimestamps,
                     t - BPM_WINDOW_MS)
     /\ frame' = FrameOf(r.f, r.t, ctxInfo[ctx], t)
     /\ now' = t

\* getData() of line 242-357 for the reading r taken at time t
Analyse(r, t) ==
  LET e == Measured[r.f, ctxInfo[ctx]].totalSum
      hist == pushEnergy(energyHistory, e)
      fires == beatFires(e, hist, t, lastBeatTime)
  IN /\ frequencyData' = r.f
     /\ timeDomainData' = r.t
     /\ prevFrequencyData' = r.f
     /\ energyHistory' = hist
     /\ lastBeatTime' = IF fires THEN t ELSE lastBeatTime
     /\ beatTimestamps' =
          pruneBeats(IF fires THEN Append(beatTimestamps, t) ELSE beatTimestamps,
                     t - BPM_WINDOW_MS)
     /\ frame' = FrameOf(r.f, r.t, ctxInfo[ctx], t)
     /\ now' = t

getData_analyse ==
  /\ nFrames < FrameLimit
  /\ analyser # 0
  /\ ctx # 0
  /\ \E dt \in Steps : \E r \in Readings(now + dt) : Analyse(r, now + dt)
  /\ nFrames' = nFrames + 1
  /\ UNCHANGED <<ctx, analyser, sessionVars, currentSource, ctxInfo,
                 analyserCtx, live, gainValue, toDestination, signal, calls,
                 overlapped, doubleRelease>>

\* ------------------------------------------------------------------ Spec
Next ==
  \/ startMic \/ startFile \/ startAudius \/ startDemo
  \/ start_contextFailed
  \/ startMic_afterContext \/ startMic_granted \/ startMic_denied
  \/ startFile_afterContext \/ startAudius_afterContext
  \/ play_resolved \/ play_rejected
  \/ startDemo_afterContext
  \/ Stop \/ dispose \/ setGain
  \/ getData_empty \/ getData_throws \/ getData_analyse

Spec == Init /\ [][Next]_vars


\* ================================================================ claims
\* the resources the engine's fields refer to
FieldRefs == StopReleased
\* the start calls that have a resource live
SessionsLive == {r.call : r \in live}
GetDataStep == getData_empty \/ getData_throws \/ getData_analyse

IdleFields ==
  /\ ~isActive
  /\ currentTrack = NoTrack
  /\ mediaStream = Null
  /\ source = Null
  /\ gainNode = Null
  /\ audioElement = Null
  /\ demoOscillators = <<>>
  /\ demoGains = <<>>
  /\ demoInterval = Null

\* C1: while every start call is awaited before the next start / stop call,
\* the live resources belong to at most one session, a resource is created
\* only when no resource of another session is live, and nothing is live
\* while a microphone stream is being requested.
C1_OneSessionWhenAwaited ==
  [][~overlapped' =>
       /\ Cardinality(SessionsLive') <= 1
       /\ \A r \in live' \ live : \A q \in live : q.call = r.call
       /\ \A c \in CallIds : calls'[c].pc = "awaitMedia" => live' = {}]_vars

\* startDemo() awaited, then startMic() awaited: only the microphone
\* session's stream and source node are live
C1_Witness ==
  /\ ~overlapped
  /\ calls[1] = [kind |-> "demo", pc |-> "resolved", ctx |-> 0, stopped |-> FALSE]
  /\ calls[2] = [kind |-> "mic", pc |-> "resolved", ctx |-> 0, stopped |-> FALSE]
  /\ currentSource = "mic"
  /\ live = {Res("stream", 2, 0), Res("source", 2, 0)}

\* C2: once no start call is pending, the resources of at most one session
\* are live and every live resource is referenced by a field of the engine,
\* also when start calls were interleaved.
C2_SerializedWhenInterleaved ==
  ~AnyPending => (Cardinality(SessionsLive) <= 1 /\ live \subseteq FieldRefs)

\* C3: when a start call settles after stop() was called during its
\* suspension (and no start call was made since), the engine is Idle.
C3_StopCancelsPendingStart ==
  [][\A c \in CallIds :
       (Pending(c) /\ calls[c].stopped /\ calls'[c].pc = "resolved" /\ ~AnyPending')
         => IdleFields']_vars

\* C4: when audio.play() rejects, the engine is Idle and the blob URL of
\* the file is revoked.
C4_PlayRejectedLeavesIdle ==
  [][play_rejected =>
       (IdleFields' /\ \A r \in live' : r.kind # "blobUrl")]_vars

\* C5: when getUserMedia is denied and nothing was interleaved, the call
\* ends rejected (no further request is pending) with the engine Idle and
\* no resource live.
C5_MicDeniedLeavesIdle ==
  [][(startMic_denied /\ ~overlapped) =>
       /\ ~isActive' /\ currentTrack' = NoTrack
       /\ mediaStream' = Null /\ source' = Null /\ gainNode' = Null
       /\ live' = {}
       /\ \A c \in CallIds : Pending(c) => calls'[c].pc = "rejected"]_vars

\* a lone startMic() was denied: currentSource never became 'mic'
C5_Witness ==
  /\ ~overlapped
  /\ calls[1] = [kind |-> "mic", pc |-> "rejected", ctx |-> 0, stopped |-> FALSE]
  /\ calls[2].pc = "none"
  /\ IdleFields
  /\ analyser = 1

\* The canonical zeroed frame, compared by value: every ratio is 0 whatever
\* its denominator.
IsZeroedFrame(f) ==
  /\ ~f.threw
  /\ f.frequency = Filled(BinCount, 0)
  /\ f.timeDomain = Filled(BinCount, 0)
  /\ \A v \in {f.bass, f.mid, f.treble, f.energy, f.peak, f.beatIntensity,
                f.spectralFlux, f.subBass, f.upperMid, f.presence} : v.n = 0
  /\ f.bpm = 0
  /\ ~f.isBeat

\* C6: after a session was started, getData() called in a state stop()
\* leaves (session fields Idle, context still open, no start call pending)
\* returns the canonical zeroed frame.
C6_StopThenGetDataIsEmpty ==
  [][(/\ GetDataStep
      /\ \E c \in CallIds : calls[c].pc = "resolved"
      /\ IdleFields
      /\ ctx # 0
      /\ ~AnyPending) => IsZeroedFrame(frame')]_vars

\* C7: getData() never throws.
C7_GetDataNeverThrows == ~frame.threw

\* C8: stop() leaves every session field null or empty and everything the
\* fields referred to released; on a state it left, stop() changes no field,
\* releases nothing, and no resource is ever released twice.
C8_StopIdempotent ==
  [][Stop =>
       /\ IdleFields'
       /\ FieldRefs \cap live' = {}
       /\ ~doubleRelease'
       /\ IdleFields => UNCHANGED <<engineVars, ctxInfo, analyserCtx, live,
                                    gainValue, toDestination>>]_vars

\* a file session was played and stopped: nothing is live, the context is
\* still there
C8_Witness ==
  /\ calls[1] = [kind |-> "file", pc |-> "resolved", ctx |-> 0, stopped |-> FALSE]
  /\ calls[2].pc = "none"
  /\ currentSource = "file"
  /\ IdleFields
  /\ live = {}
  /\ ctx # 0

\* C9: with a gain stage, setGain(v) leaves its value at min(1, max(0, v)).
Clamp01(v) == Min(100, Max(0, v))
C9_SetGainClamps ==
  [][\A v \in GainInputs :
       (SetGainTo(v) /\ gainNode # Null) => gainValue' = Clamp01(v)]_vars

\* C10: setGain changes nothing but the gain value, and not even that while
\* gainNode is null; gainNode is null when the fields are Idle and in a
\* microphone session started without interleaving.
C10_SetGainFrame ==
  [][/\ setGain => /\ UNCHANGED <<engineVars, ctxInfo, analyserCtx, live,
                                  toDestination, frame>>
                   /\ gainNode = Null => gainValue' = gainValue
     /\ (~overlapped' /\ isActive' /\ currentSource' = "mic") => gainNode' = Null]_vars

\* a microphone session started without interleaving, no gain stage
C10_Witness ==
  /\ ~overlapped
  /\ isActive
  /\ currentTrack = micTrack
  /\ gainNode = Null
  /\ mediaStream # Null

\* C13: the frequency and timeDomain contents of the frame last returned
\* are changed by no later step (getData(), start call or stop()).
C13_FrameIsACopy ==
  [][(~frame.threw /\ frame.buffers # 0 /\ frame.buffers = analyser') =>
       /\ frequencyData' = frame.frequency
       /\ timeDomainData' = frame.timeDomain]_vars

C19_StopConstructActivate ==
  [][/\ \A c \in CallIds :
          (calls[c].pc = "none" /\ calls'[c].pc = "awaitCtx") =>
            /\ IdleFields'
            /\ FieldRefs \cap live' = {}
            /\ live' \subseteq live
     /\ (\/ isActive' /\ ~isActive
         \/ currentSource' # currentSource
         \/ currentTrack' \notin {currentTrack, NoTrack}) =>
          \E c \in CallIds :
            /\ Pending(c)
            /\ calls'[c].pc = "resolved"
            /\ currentSource' = calls[c].kind]_vars

\* C20: when a start call completes successfully (none other interleaved),
\* the analysis state is the reset one: no energy sample, no beat timestamp,
\* lastBeatTime 0 and an all-zero previous spectrum, also when getData() ran
\* during the call's awaits.
C20_FreshAnalysisState ==
  [][\A c \in CallIds :
       (Pending(c) /\ calls'[c].pc = "resolved" /\ ~overlapped') =>
         /\ energyHistory' = <<>>
         /\ beatTimestamps' = <<>>
         /\ lastBeatTime' = 0
         /\ prevFrequencyData' = Uint8Array(_fftSize \div 2)]_vars

\* getAudioElement(), line 402-404
getAudioElement == audioElement
\* getTrackInfo(), line 70-72
getTrackInfo == currentTrack

\* C12: in every reachable state, interleaved start calls included, the
\* playback handle is non-null only while currentSource is 'file' or 'audius'.
C12_HandleOnlyForMedia ==
  getAudioElement # Null => currentSource \in {"file", "audius"}


\* the start calls, stop(), dispose() and setGain() alone
NextLifecycle ==
  \/ startMic \/ startFile \/ startAudius \/ startDemo
  \/ start_contextFailed
  \/ startMic_afterContext \/ startMic_granted \/ startMic_denied
  \/ startFile_afterContext \/ startAudius_afterContext
  \/ play_resolved \/ play_rejected
  \/ startDemo_afterContext
  \/ Stop \/ dispose \/ setGain

SpecLifecycle == Init /\ [][NextLifecycle]_vars

\* ------------------------------------------------------------ one session
\* the clock values at which a session can have been started
StartTimes == {0, 100, 300}

\* The engine right after a lone startDemo() has resolved, at any start
\* time, on any device, with any signal about to play.
InitSession ==
  /\ ctx = 1
  /\ analyser = 1
  /\ source = Null
  /\ gainNode = Res("gain", 1, 0)
  /\ frequencyData = Uint8Array(BinCount)
  /\ timeDomainData = Uint8Array(BinCount)
  /\ currentSource = "demo"
  /\ audioElement = Null
  /\ mediaStream = Null
  /\ demoOscillators = [i \in DemoIdx |-> Res("osc", 1, i)]
  /\ demoGains = [i \in DemoIdx |-> Res("demoGain", 1, i)]
  /\ demoInterval = Res("timer", 1, 0)
  /\ isActive = TRUE
  /\ energyHistory = <<>>
  /\ beatTimestamps = <<>>
  /\ prevFrequencyData = Uint8Array(_fftSize \div 2)
  /\ lastBeatTime = 0
  /\ currentTrack = demoTrack
  /\ ctxInfo \in {<<r>> : r \in DeviceSampleRates}
  /\ live = {Res("gain", 1, 0), Res("timer", 1, 0)}
              \cup {Res("osc", 1, i) : i \in DemoIdx}
              \cup {Res("demoGain", 1, i) : i \in DemoIdx}
  /\ analyserCtx = 1
  /\ gainValue = DemoMasterGain
  /\ toDestination = {1}
  /\ now \in StartTimes
  /\ signal \in SessionSignals
  /\ calls = [c \in CallIds |->
                IF c = 1 THEN [kind |-> "demo", pc |-> "resolved",
                               ctx |-> 0, stopped |-> FALSE]
                         ELSE NoCall]
  /\ frame = emptyResult
  /\ nFrames = 0
  /\ overlapped = FALSE
  /\ doubleRelease = FALSE

\* the render loop on that session
NextSession == getData_analyse

SpecSession == InitSession /\ [][NextSession]_vars

\* ====================================================== claims on one session
\* the ratio v lies in [0, 1]
InUnit(v) == v.d > 0 /\ v.n >= 0 /\ v.n <= v.d
ArrayLength(h) == Cardinality(DOMAIN Content[h])

\* C11: every frame getData() returns has its ten ratios in [0, 1], a bpm
\* that is 0 or within 40..220, and frequency and timeDomain arrays of
\* fftSize / 2 bytes, in the frame of an engine without analyser as in the
\* frames of a session.
C11_FrameWellFormed ==
  ~frame.threw =>
    /\ \A v \in {frame.bass, frame.mid, frame.treble, frame.subBass,
                  frame.upperMid, frame.presence, frame.energy, frame.peak,
                  frame.beatIntensity, frame.spectralFlux} : InUnit(v)
    /\ frame.bpm = 0 \/ frame.bpm \in 40..220
    /\ ArrayLength(frame.frequency) = _fftSize \div 2
    /\ ArrayLength(frame.timeDomain) = _fftSize \div 2

\* a beat frame of a 120 BPM train: the flux is at its clamp and the bpm set
C11_Witness ==
  /\ frame.isBeat
  /\ frame.bpm = 120
  /\ frame.spectralFlux.n = frame.spectralFlux.d
  /\ frame.peak.n = frame.peak.d
  /\ frame.beatIntensity.n > 0

\* the eight spectrum measures of a frame
SpectrumMeasures(f) ==
  {f.bass, f.mid, f.treble, f.subBass, f.upperMid, f.presence, f.energy, f.peak}

\* C14: a session frame taken from an all-zero spectrum has its eight
\* spectrum measures at 0, one taken from an all-255 spectrum has them at 1.
C14_BandExtremes ==
  (~frame.threw /\ frame.buffers # 0) =>
    /\ frame.frequency = Filled(BinCount, 0) =>
         \A v \in SpectrumMeasures(frame) : v.n = 0
    /\ frame.frequency = Filled(BinCount, 255) =>
         \A v \in SpectrumMeasures(frame) : v.n = v.d

\* C14, amended: from an all-zero spectrum the eight measures are 0; from an
\* all-255 spectrum energy and peak are 1 and each band is 1 when its bin
\* range at the context's sample rate holds a bin, and 0 when it holds none.
C14_BandExtremesNonEmpty ==
  (~frame.threw /\ frame.buffers # 0) =>
    LET sr == ctxInfo[ctx]
        AtTop(v, S) == IF S # {} THEN v.n = v.d ELSE v.n = 0
    IN /\ frame.frequency = Filled(BinCount, 0) =>
            \A v \in SpectrumMeasures(frame) : v.n = 0
       /\ frame.frequency = Filled(BinCount, 255) =>
            /\ frame.energy.n = frame.energy.d
            /\ frame.peak.n = frame.peak.d
            /\ AtTop(frame.bass, bassBins(sr))
            /\ AtTop(frame.mid, midBins(sr))
            /\ AtTop(frame.treble, trebleBins(sr))
            /\ AtTop(frame.subBass, subBassBins(sr))
            /\ AtTop(frame.upperMid, upperMidBins(sr))
            /\ AtTop(frame.presence, presenceBins(sr))

\* an all-255 frame on a 192 kHz device: no bin lies in 20-60 Hz
C14_Witness ==
  /\ ctxInfo = <<192000>>
  /\ frame.frequency = Filled(BinCount, 255)
  /\ frame.subBass.n = 0
  /\ frame.bass.n = frame.bass.d
  /\ frame.presence.n = frame.presence.d

\* the energy of the last frame exceeds 1.3 times the average of the history
\* and that average exceeds 0.01
EnergyOverThreshold ==
  /\ energyHistory # <<>>
  /\ energyHistory[Len(energyHistory)] * Len(energyHistory) * BEAT_THRESHOLD_DEN
       > BEAT_THRESHOLD_NUM * SumSeq(energyHistory)
  /\ 100 * SumSeq(energyHistory) > Len(energyHistory) * BinCount * 255

\* C15: a getData() call less than 150 ms after the last beat of the session
\* reports no beat and records no timestamp, and consecutive entries of
\* beatTimestamps are at least 150 ms apart.
C15_BeatsAtLeast150Apart ==
  [][getData_analyse =>
       /\ (lastBeatTime > 0 /\ now' < lastBeatTime + minBeatInterval) =>
            /\ ~frame'.isBeat
            /\ lastBeatTime' = lastBeatTime
            /\ Range(beatTimestamps') \subseteq Range(beatTimestamps)
       /\ \A i \in 1..(Len(beatTimestamps') - 1) :
            beatTimestamps'[i + 1] - beatTimestamps'[i] >= minBeatInterval]_vars

\* a loud frame 100 ms after a beat: only the interval keeps it from firing
C15_Witness ==
  /\ lastBeatTime > 0
  /\ now = lastBeatTime + 100
  /\ EnergyOverThreshold
  /\ ~frame.isBeat
  /\ beatTimestamps # <<>>

\* C16: while every frame of the session sees the same spectrum, the energy
\* history holds only that frame energy and every frame has isBeat false,
\* beatIntensity 0 and bpm 0.
C16_SteadyInputNeverBeats ==
  [][(getData_analyse /\ signal.kind = "steady") =>
       /\ \A i \in 1..Len(energyHistory') :
            energyHistory'[i] = frame'.energy.n
       /\ ~frame'.isBeat
       /\ frame'.beatIntensity.n = 0
       /\ frame'.bpm = 0
       /\ beatTimestamps' = <<>>]_vars

\* a steady loud input after the history window has filled and shifted
C16_Witness ==
  /\ signal.kind = "steady"
  /\ nFrames > ENERGY_HISTORY_SIZE
  /\ Len(energyHistory) = ENERGY_HISTORY_SIZE
  /\ frame.energy.n = frame.energy.d
  /\ ~frame.isBeat

\* C17: on a 120 BPM impulse train sampled at a steady frame rate, every
\* frame with three beats retained reports a bpm within 118..122, three
\* beats once retained stay retained, and they are retained once the train
\* has been fed for 5 seconds.
C17_TrainGives120 ==
  [][(getData_analyse /\ signal.kind = "train") =>
       /\ Len(beatTimestamps') >= 3 => frame'.bpm \in 118..122
       /\ Len(beatTimestamps) >= 3 => Len(beatTimestamps') >= 3
       /\ nFrames' * signal.step >= BPM_WINDOW_MS =>
            Len(beatTimestamps') >= 3]_vars

\* the train after more than 5 seconds: a full window of beats, bpm 120
C17_Witness ==
  /\ signal.kind = "train"
  /\ nFrames * signal.step > BPM_WINDOW_MS
  /\ Len(beatTimestamps) >= 10
  /\ Len(energyHistory) = ENERGY_HISTORY_SIZE
  /\ frame.bpm = 120
  /\ ~frame.isBeat

\* C21: a frame reports a beat exactly when its energy exceeds 1.3 times the
\* average of the history, that average exceeds 0.01 and at least 150 ms have
\* passed since the last beat fired (if any); a frame that fires sets
\* lastBeatTime to its time and appends it to beatTimestamps, a frame that
\* does not fire leaves lastBeatTime and appends nothing.
C21_BeatExactlyWhen ==
  [][getData_analyse =>
       LET elapsed == lastBeatTime = 0 \/ now' - lastBeatTime >= minBeatInterval
       IN /\ frame'.isBeat <=> (EnergyOverThreshold' /\ elapsed)
          /\ frame'.isBeat =>
               /\ lastBeatTime' = now'
               /\ beatTimestamps' # <<>>
               /\ beatTimestamps'[Len(beatTimestamps')] = now'
          /\ ~frame'.isBeat =>
               /\ lastBeatTime' = lastBeatTime
               /\ Range(beatTimestamps') \subseteq Range(beatTimestamps)]_vars

\* m is the element at index floor(n / 2) of the n values of q in ascending
\* order (indices from 0)
IsMedian(m, q) ==
  /\ m \in Range(q)
  /\ Cardinality({i \in 1..Len(q) : q[i] < m}) <= Len(q) \div 2
  /\ Cardinality({i \in 1..Len(q) : q[i] <= m}) > Len(q) \div 2
\* b is 60000 / m rounded to the nearest integer, halves upwards
IsRounded(b, m) == 2 * m * b <= 120000 + m /\ 120000 + m < 2 * m * (b + 1)

\* C22: with the timestamps retained after pruning, a beat of this frame
\* included, bpm is 0 when fewer than 3 are retained; otherwise it is
\* 60000 / median rounded, the median being the element at index floor(n / 2)
\* of the n sorted consecutive differences, replaced by 0 outside 40..220.
C22_BpmFromMedian ==
  [][getData_analyse =>
       LET ts == beatTimestamps'
           diffs == [i \in 1..(Len(ts) - 1) |-> ts[i + 1] - ts[i]]
       IN /\ frame'.isBeat => (ts # <<>> /\ ts[Len(ts)] = now')
          /\ Len(ts) < 3 => frame'.bpm = 0
          /\ Len(ts) >= 3 =>
               \E m \in Range(diffs) :
                 /\ IsMedian(m, diffs)
                 /\ IF \E b \in 40..220 : IsRounded(b, m)
                      THEN IsRounded(frame'.bpm, m)
                      ELSE frame'.bpm = 0]_vars

\* a swung rhythm with an even number of differences, 300, 500 and 700 ms;
\* the upper middle one gives round(60000 / 700) = 86
C22_Witness ==
  /\ signal.kind = "swing"
  /\ Len(beatTimestamps) % 2 = 1
  /\ frame.isBeat
  /\ frame.bpm = 86

\* C23: after every getData() call of the session beatTimestamps is, in
\* increasing order, exactly what it held before plus the time of a beat
\* fired on this frame, less every timestamp older than now - 5000 (one of
\* exactly now - 5000 stays); nothing dropped comes back, and once the last
\* beat is more than 5000 ms old no timestamp is left and bpm is 0.
C23_BeatWindow ==
  [][getData_analyse =>
       LET fired == IF frame'.isBeat THEN Append(beatTimestamps, now')
                                     ELSE beatTimestamps
           InWindow(t) == now' - BPM_WINDOW_MS <= t /\ t <= now'
       IN /\ beatTimestamps' = SelectSeq(fired, InWindow)
          /\ \A i \in 1..(Len(beatTimestamps') - 1) :
               beatTimestamps'[i] < beatTimestamps'[i + 1]
          /\ Range(beatTimestamps') \cap (0..(now' - BPM_WINDOW_MS - 1)) = {}
          /\ now' - lastBeatTime' > BPM_WINDOW_MS =>
               (beatTimestamps' = <<>> /\ frame'.bpm = 0)]_vars

\* a frame taken exactly 5000 ms after a beat of the train: that beat is the
\* oldest one kept, the ones before it are gone
C23_Witness ==
  /\ signal.kind = "train"
  /\ beatTimestamps # <<>>
  /\ beatTimestamps[1] = now - BPM_WINDOW_MS
  /\ beatTimestamps[1] > ImpulsePeriod
  /\ frame.bpm = 120

\* the sum over all bins of max(0, cur[i] - prev[i]), for every two spectra
RiseSum ==
  [cur \in SpectrumNames, prev \in SpectrumNames |->
     SumOver([i \in Bins |-> Max(0, Content[cur][i] - Content[prev][i])], Bins)]

\* C24: the spectralFlux of a frame is min(1, S / (binCount * 40)), S being
\* the sum of the positive bin differences to the spectrum of the
\* preceding getData() call of the session, or to an all-zero spectrum on
\* the session's first frame; it is 0 when no bin has risen.
C24_SpectralFlux ==
  [][getData_analyse =>
       LET cur == frame'.frequency
           prev == IF nFrames = 0 THEN Filled(BinCount, 0) ELSE frame.frequency
           S == RiseSum[cur, prev]
       IN /\ frame'.spectralFlux.d = BinCount * FLUX_NORM
          /\ frame'.spectralFlux.n = Min(S, BinCount * FLUX_NORM)
          /\ NotAbove[cur, prev] => frame'.spectralFlux.n = 0]_vars

\* a bass-heavy frame after a quiet one: twelve bins rose by 253, the flux
\* is 3036 / 40960
C24_Witness ==
  /\ nFrames >= 2
  /\ frame.frequency = "bassy"
  /\ frame.spectralFlux.n = 12 * 253
  /\ frame.spectralFlux.n < frame.spectralFlux.d

\* the bin index bound of frequency f: floor(f / (sr / fftSize)), at most
\* binCount
Bound(f, sr) == Min((f * _fftSize) \div sr, _fftSize \div 2)
\* (sum of the bins lo..hi-1) / (number of those bins * 255), as the pair of
\* the sum and the number
RangeSum(h, lo, hi) ==
  [sum |-> SumOver(Content[h], lo..(hi - 1)), count |-> Max(hi - lo, 0)]
\* the band value v is sum / (count * 255), and 0 when count is 0
IsMean(v, r) ==
  IF r.count = 0 THEN v.n = 0
  ELSE v.n = r.sum /\ v.d = r.count * 255
\* the six bands by their frequency ranges, for every spectrum and rate
ByRange ==
  [h \in SpectrumNames, sr \in DeviceSampleRates |->
     [bass |-> RangeSum(h, Bound(20, sr), Bound(250, sr)),
      mid |-> RangeSum(h, Bound(250, sr), Bound(2000, sr)),
      treble |-> RangeSum(h, Bound(2000, sr), Bound(20000, sr)),
      subBass |-> RangeSum(h, Bound(20, sr), Bound(60, sr)),
      upperMid |-> RangeSum(h, Bound(2000, sr), Bound(6000, sr)),
      presence |-> RangeSum(h, Bound(6000, sr), Bound(20000, sr)),
      all |-> RangeSum(h, 0, _fftSize \div 2)]]
\* the largest byte of every spectrum
Largest ==
  [h \in SpectrumNames |->
     CHOOSE v \in 0..255 : /\ \E i \in Bins : Content[h][i] = v
                           /\ \A i \in Bins : Content[h][i] <= v]
\* at every rate the bins counted in bass, mid and treble are pairwise
\* disjoint and together are the bins from the bass start to the treble end
PrimaryPartition ==
  \A sr \in DeviceSampleRates :
    /\ bassBins(sr) \cap midBins(sr) = {}
    /\ bassBins(sr) \cap trebleBins(sr) = {}
    /\ midBins(sr) \cap trebleBins(sr) = {}
    /\ bassBins(sr) \cup midBins(sr) \cup trebleBins(sr)
         = {i \in Bins : Bound(20, sr) <= i /\ i < Bound(20000, sr)}

\* C25: every band of a session frame is the mean of the bins of its
\* frequency range over 255, and 0 when the range holds no bin; bass, mid and
\* treble are disjoint and cover the bins from the bass start to the treble
\* end; energy is the mean of all bins over 255 and peak the largest bin
\* over 255.
C25_BandDecomposition ==
  (~frame.threw /\ frame.buffers # 0) =>
    LET r == ByRange[frame.frequency, ctxInfo[ctx]]
    IN /\ IsMean(frame.bass, r.bass)
       /\ IsMean(frame.mid, r.mid)
       /\ IsMean(frame.treble, r.treble)
       /\ IsMean(frame.subBass, r.subBass)
       /\ IsMean(frame.upperMid, r.upperMid)
       /\ IsMean(frame.presence, r.presence)
       /\ IsMean(frame.energy, r.all)
       /\ PrimaryPartition
       /\ frame.peak.d = 255
       /\ frame.peak.n = Largest[frame.frequency]

\* a rising spectrum at 44.1 kHz: bass, mid and treble differ
C25_Witness ==
  /\ ctxInfo = <<44100>>
  /\ frame.frequency = "ramp"
  /\ frame.bass.n > 0
  /\ (1000 * frame.bass.n) \div frame.bass.d < (1000 * frame.mid.n) \div frame.mid.d
  /\ (1000 * frame.mid.n) \div frame.mid.d < (1000 * frame.treble.n) \div frame.treble.d
  /\ frame.peak.n = 255

\* C26: after the k-th getData() call of the session energyHistory holds the
\* energies of the last min(k, 43) frames, oldest first and the frame just
\* analysed last; the beat test of that frame uses the mean of this window.
C26_EnergyWindow ==
  [][getData_analyse =>
       LET all == Append(energyHistory, frame'.energy.n)
           k == nFrames'
           kept == Min(k, ENERGY_HISTORY_SIZE)
       IN /\ Len(energyHistory') = kept
          /\ Len(energyHistory') <= ENERGY_HISTORY_SIZE
          /\ energyHistory' = SubSeq(all, Len(all) - kept + 1, Len(all))
          /\ frame'.energy.d = BinCount * 255
          /\ frame'.isBeat => EnergyOverThreshold'
          /\ (EnergyOverThreshold' /\ now' - lastBeatTime > minBeatInterval)
               => frame'.isBeat]_vars

\* the frame of an impulse after the window has filled: 43 entries, the
\* newest the impulse's full-scale energy, and the beat fired on their mean
C26_Witness ==
  /\ signal.kind = "train"
  /\ nFrames > ENERGY_HISTORY_SIZE
  /\ Len(energyHistory) = ENERGY_HISTORY_SIZE
  /\ energyHistory[ENERGY_HISTORY_SIZE] = BinCount * 255
  /\ energyHistory[1] < BinCount * 255
  /\ frame.isBeat

\* clamp01((energy - avgEnergy * 1.3) / max(avgEnergy, 0.01)) for the energy
\* e / (binCount * 255) and the window hist of such energies
Overshoot(e, hist) ==
  LET over == e * Len(hist) * BEAT_THRESHOLD_DEN - BEAT_THRESHOLD_NUM * SumSeq(hist)
      den == IF 100 * SumSeq(hist) >= Len(hist) * BinCount * 255
               THEN BEAT_THRESHOLD_DEN * SumSeq(hist)
               ELSE (Len(hist) * BinCount * 255 * BEAT_THRESHOLD_DEN) \div 100
  IN [n |-> Min(Max(over, 0), den), d |-> den]
\* the ratios a and b are the same number
SameRatio(a, b) == IF a.n = 0 \/ b.n = 0 THEN a.n = b.n ELSE a = b

\* C27: the beatIntensity of every frame, beat or not, is the overshoot of
\* its energy over 1.3 times the window's mean, divided by max(mean, 0.01)
\* and clamped to [0, 1].
C27_IntensityIsOvershoot ==
  [][getData_analyse =>
       SameRatio(frame'.beatIntensity,
                 Overshoot(frame'.energy.n, energyHistory'))]_vars

\* C28: in every reachable state, whatever start calls, stop() and getData()
\* were interleaved, isActive is true exactly when getTrackInfo() is
\* non-null, a non-null track's source is currentSource, and getTrackInfo()
\* is null while no session field is set.
C28_TrackAgreesWithActive ==
  /\ isActive <=> getTrackInfo # NoTrack
  /\ getTrackInfo # NoTrack => getTrackInfo.source = currentSource
  /\ (/\ source = Null /\ gainNode = Null /\ mediaStream = Null
      /\ audioElement = Null /\ demoOscillators = <<>> /\ demoInterval = Null)
       => getTrackInfo = NoTrack

\* a microphone session granted after a demo session was started during its
\* permission prompt, frames taken meanwhile
C28_Witness ==
  /\ overlapped
  /\ isActive
  /\ getTrackInfo = micTrack
  /\ currentSource = "mic"
  /\ demoInterval # Null
  /\ nFrames > 0

\* the sample rates audio devices commonly run at
StandardRates ==
  DeviceSampleRates
  \cup {11025, 16000, 22050, 32000, 88200, 96000, 176400}
\* at every rate upperMid and presence are disjoint and together are treble,
\* and subBass lies within bass
SupplementaryBins ==
  \A sr \in StandardRates :
    /\ upperMidBins(sr) \cap presenceBins(sr) = {}
    /\ upperMidBins(sr) \cup presenceBins(sr) = trebleBins(sr)
    /\ subBassBins(sr) \subseteq bassBins(sr)
\* sum and count of a band value (a band without bins has neither)
SumOf(v) == v.n
CountOf(v) == IF v = Zero THEN 0 ELSE v.d \div 255

\* C29: in every session frame, at every sample rate, the bins of upperMid
\* and of presence are disjoint and together those of treble, with
\* trebleSum = upperMidSum + presenceSum and trebleCount = upperMidCount +
\* presenceCount; the bins of subBass are bins of bass; and no band value
\* exceeds peak.
C29_SupplementaryBands ==
  (~frame.threw /\ frame.buffers # 0) =>
    /\ SupplementaryBins
    /\ SumOf(frame.treble) = SumOf(frame.upperMid) + SumOf(frame.presence)
    /\ CountOf(frame.treble) = CountOf(frame.upperMid) + CountOf(frame.presence)
    /\ CountOf(frame.subBass) <= CountOf(frame.bass)
    /\ SumOf(frame.subBass) <= SumOf(frame.bass)
    /\ \A v \in {frame.bass, frame.mid, frame.treble, frame.subBass,
                  frame.upperMid, frame.presence, frame.energy} :
         v.n * 255 <= frame.peak.n * v.d

\* a rising spectrum at 48 kHz: upperMid below treble below presence, all
\* three with bins
C29_Witness ==
  /\ ctxInfo = <<48000>>
  /\ frame.frequency = "ramp"
  /\ CountOf(frame.upperMid) > 0
  /\ CountOf(frame.presence) > 0
  /\ CountOf(frame.subBass) > 0
  /\ CountOf(frame.subBass) < CountOf(frame.bass)
  /\ SumOf(frame.upperMid) < SumOf(frame.presence)

\* a start call begins in this step
StartBegins == \E d \in CallIds : calls[d].pc = "none" /\ calls'[d].pc = "awaitCtx"

====
